---- MODULE Spec2Model ----
(***************************************************************************)
(* Model of the bounded event queue (package data, EventQueue) and of the  *)
(* worker that consumes it (package worker, Worker.Run / Worker.Shutdown / *)
(* the per-event task goroutine) of cybrarymin/behavox.                    *)
(*                                                                         *)
(* Every event is put by its own producer (one HTTP handler call each),    *)
(* the producers, the dispatch loop of Run, the task goroutines and the    *)
(* Shutdown caller are interleaved at the granularity of the statements    *)
(* that touch shared state (channel, semaphore, WaitGroup, context).       *)
(***************************************************************************)
EXTENDS Integers, Sequences, FiniteSets, TLC

\* ------------------------------------------------------------------ bounds
\* number of events (and of producers: one PutEvent call per event)
NumEvents == 3
\* --event-queue-size in the model (flag default 100)
CmdEventQueueSize == 2
\* --event-queue-max-worker-threads in the model (flag default 5)
CmdmaxWorkerGoroutines == 2
\* number of HTTP requests that pass through the rateLimit middleware
NumRequests == 3
\* number of client addresses
NumClients == 2
\* --global-request-rate-limit in the model
CmdGlobalRateLimit == 2
\* --per-client-rate-limit in the model
CmdPerClientRateLimit == 1

EventIds == 1..NumEvents
NoEvent == 0

\* the two event variants: *EventLog and *EventMetric
EventTypes == {"log", "metric"}
Statuses == {"success", "failed", "skipped"}

\* dynamic type of an event (odd ids are log events, even ids metric events)
EventType(e) == IF e % 2 = 1 THEN "log" ELSE "metric"

VARIABLES
  Events,        \* eq.Events: the buffered channel, head first
  EnqueueTime,   \* BaseEvent.EnqueueTime per event: 0 = zero time, 1 = stamped
  putPc,         \* position of the PutEvent call of each event
  putRes,        \* what PutEvent returned: "none" (not yet), "ok", "full"
  interf,        \* in-flight PutEvent calls that overlapped another queue operation
  before,        \* <<a, b>>: PutEvent(a) had returned nil when PutEvent(b) was called
                 \* (kept until both have been received)
  runPc,         \* position of Worker.Run
  nEvent,        \* the event Run holds between the receive and the go statement
  wg,            \* w.wg counter
  semaphore,     \* number of tokens in the semaphore channel
  ctxDone,       \* runCtx.Done() is closed (w.Cancel was called)
  taskPc,        \* position of the task goroutine of each event
  calls,         \* results of the processEvent invocations of each event, in order
  outcome,       \* status label recorded for the event, "none" before
  PromEventTotalProcessStatus,  \* counter per <<status, type>>
  PromEventRetryCount,          \* counter per type
  PromEventTotalProcessed,      \* counter
  shutPc,        \* position of Worker.Shutdown
  done,          \* Shutdown's done channel is closed
  crashed,       \* the process has ended: an unrecovered panic, or Main returned
  resp,          \* what createEventHandler has written to its response, per event
  getPc,         \* position of a GetEvent call
  getRes,        \* the event the last GetEvent call returned, NoEvent for nil
  procPc,        \* position of each task inside processEvent
  fileLock,      \* the event whose task holds w.fileLock, NoEvent when free
  ThreadIDSets,  \* how often BaseEvent.ThreadID of each event was assigned
  ThreadID,      \* BaseEvent.ThreadID of each event
  attempts,      \* jMeta, digest and length of each processEvent call, per event
  slept,         \* whether the 2 s sleep of each task's backoff has elapsed
  CmdEnableRateLimit, \* api.Cfg.RateLimit.Enabled
  nRL,           \* tokens in the bucket of the global limiter
  pcnRL,         \* tokens of each client's limiter, NoLimiter when not in the map
  expiring,      \* the client's expiry goroutine has received from its timer
  reqPc,         \* position of each request in the rateLimit handler
  reqAddr,       \* the host of r.RemoteAddr, BadAddr when it does not parse
  reqGlobal,     \* what nRL.Allow() answered for the request
  reqClient,     \* what the client limiter's Allow() answered for the request
  reqStatus,     \* the status rateLimit or panicRecovery wrote, 0 for none
  reqNext,       \* whether next.ServeHTTP was called for the request
  mainPc,        \* position of Main: in ListenAndServe, at <-shutdownChan, ...
  gsPc,          \* position of the gracefulShutdown goroutine
  hPc,           \* the request handler that calls PutEvent for each event
  appends        \* the successful appends to the processed-events file, per event

vars == <<Events, EnqueueTime, putPc, putRes, interf, before,
          runPc, nEvent, wg, semaphore, ctxDone, taskPc, calls, outcome,
          PromEventTotalProcessStatus, PromEventRetryCount,
          PromEventTotalProcessed, shutPc, done,
          crashed, resp, getPc, getRes, procPc, fileLock, ThreadIDSets,
          ThreadID, attempts,
          slept, CmdEnableRateLimit, nRL, pcnRL, expiring, reqPc, reqAddr, reqGlobal,
          reqClient, reqStatus, reqNext, mainPc, gsPc, hPc, appends>>

queueVars == <<Events, EnqueueTime, putPc, putRes, interf, before>>
runVars == <<runPc, nEvent>>
taskVars == <<taskPc, calls, outcome>>
promVars == <<PromEventTotalProcessStatus, PromEventRetryCount, PromEventTotalProcessed>>
shutVars == <<shutPc, done>>
auxVars == <<crashed, resp, getPc, getRes>>
stepVars == <<procPc, fileLock, ThreadIDSets, ThreadID, attempts, slept>>
rateVars == <<CmdEnableRateLimit, nRL, pcnRL, expiring, reqPc, reqAddr, reqGlobal,
              reqClient, reqStatus, reqNext>>
mainVars == <<mainPc, gsPc, hPc>>

\* ------------------------------------------------------------ the channel
\* cap(eq.Events)
Capacity == CmdEventQueueSize

\* variant: a buffer that never blocks the sender (no capacity enforced)
ChanCanSendUnbounded(q) == TRUE
\* a send on a full buffered channel blocks
ChanCanSend(q) == Len(q) < Capacity

\* variant: the new element is put at the head
ChanSendFront(q, e) == <<e>> \o q
\* eq.Events <- event
ChanSend(q, e) == Append(q, e)

\* variant: the receive takes the newest element of the buffer
ChanRecvValueLast(q) == q[Len(q)]

\* <-eq.Events
ChanRecvValue(q) == Head(q)
ChanRecvRest(q) == Tail(q)

\* variant: the comparison is > instead of ==
QueueFullOffByOne(q) == Len(q) > Capacity
\* len(eq.Events) == cap(eq.Events)
QueueFull(q) == Len(q) = Capacity

\* EventQueue.Size
Size == Len(Events)

\* the elements of a sequence
Range(s) == {s[i] : i \in 1..Len(s)}

\* PutEvent calls in flight (past the length check, not yet returned)
InFlight == {e \in EventIds : putPc[e] = "send"}

\* ------------------------------------------------- the rate limiter
RequestIds == 1..NumRequests
Clients == 1..NumClients
\* a RemoteAddr that net.SplitHostPort rejects
BadAddr == 0
\* no entry for the client in the pcnRL map
NoLimiter == -1
\* busrtSize := GlobalRateLimit + GlobalRateLimit/10
busrtSize == CmdGlobalRateLimit + CmdGlobalRateLimit \div 10
\* pcbusrtSize := perClientRateLimit + perClientRateLimit/10
pcbusrtSize == CmdPerClientRateLimit + CmdPerClientRateLimit \div 10
StatusTooManyRequests == 429
StatusInternalServerError == 500

\* rate.NewLimiter starts with a full bucket; the map of client limiters is
\* empty and no request has arrived
InitRateLimit ==
  /\ nRL = busrtSize
  /\ pcnRL = [c \in Clients |-> NoLimiter]
  /\ expiring = [c \in Clients |-> FALSE]
  /\ reqPc = [r \in RequestIds |-> "new"]
  /\ reqAddr = [r \in RequestIds |-> BadAddr]
  /\ reqGlobal = [r \in RequestIds |-> "none"]
  /\ reqClient = [r \in RequestIds |-> "none"]
  /\ reqStatus = [r \in RequestIds |-> 0]
  /\ reqNext = [r \in RequestIds |-> FALSE]

InitWorker ==
  /\ Events = <<>>
  /\ EnqueueTime = [e \in EventIds |-> 0]
  /\ putPc = [e \in EventIds |-> "idle"]
  /\ putRes = [e \in EventIds |-> "none"]
  /\ interf = {}
  /\ before = {}
  /\ runPc = "start"
  /\ nEvent = NoEvent
  /\ wg = 0
  /\ semaphore = 0
  /\ ctxDone = FALSE
  /\ taskPc = [e \in EventIds |-> "none"]
  /\ calls = [e \in EventIds |-> <<>>]
  /\ outcome = [e \in EventIds |-> "none"]
  /\ PromEventTotalProcessStatus = [k \in Statuses \X EventTypes |-> 0]
  /\ PromEventRetryCount = [t \in EventTypes |-> 0]
  /\ PromEventTotalProcessed = 0
  /\ shutPc = "idle"
  /\ done = FALSE
  /\ crashed = FALSE
  /\ resp = [e \in EventIds |-> <<>>]
  /\ getPc = "idle"
  /\ getRes = NoEvent
  /\ procPc = [e \in EventIds |-> "idle"]
  /\ fileLock = NoEvent
  /\ ThreadIDSets = [e \in EventIds |-> 0]
  /\ ThreadID = [e \in EventIds |-> 0]
  /\ attempts = [e \in EventIds |-> <<>>]
  /\ slept = [e \in EventIds |-> FALSE]
  /\ appends = [e \in EventIds |-> 0]

\* Main is in ListenAndServe, gracefulShutdown waits for a signal and no
\* request has arrived
InitMain ==
  /\ mainPc = "serve"
  /\ gsPc = "signal"
  /\ hPc = [e \in EventIds |-> "new"]

\* the server started with --enable-rate-limit=true
Init == InitWorker /\ InitRateLimit /\ InitMain /\ CmdEnableRateLimit = TRUE

\* --------------------------------------------------------------- PutEvent
\* events are numbered in the order their PutEvent calls begin
Called(e) == putPc[e] # "idle"
NextToCall(e) == \A x \in EventIds : x < e => Called(x)

\* the events whose PutEvent has returned nil and that are still in the channel
ReturnedOkQueued == {x \in EventIds : putRes[x] = "ok" /\ x \in Range(Events)}

\* http.StatusServiceUnavailable (eventQueueFullResponse), http.StatusCreated
StatusServiceUnavailable == 503
StatusCreated == 201

\* variant: the handler returns after the queue-full response
createEventHandlerWritesReturn(err) ==
  IF err THEN <<StatusServiceUnavailable>> ELSE <<StatusCreated>>

\* the WriteJson calls createEventHandler makes after PutEvent has returned:
\* on an error api.eventQueueFullResponse(w, r), and then, in both cases
\* (there is no return after the error response), the 201 body with the event
createEventHandlerWrites(err) ==
  IF err THEN <<StatusServiceUnavailable, StatusCreated>> ELSE <<StatusCreated>>

\* variant: EnqueueTime is stamped before the length check
PutEventCheckStampFirst(e) ==
  /\ ~crashed
  /\ putPc[e] = "idle"
  /\ NextToCall(e)
  /\ EnqueueTime' = [EnqueueTime EXCEPT ![e] = 1]
  /\ IF QueueFull(Events)
       THEN /\ putPc' = [putPc EXCEPT ![e] = "done"]
            /\ putRes' = [putRes EXCEPT ![e] = "full"]
            /\ resp' = [resp EXCEPT ![e] = createEventHandlerWrites(TRUE)]
            /\ UNCHANGED before
       ELSE /\ putPc' = [putPc EXCEPT ![e] = "send"]
            /\ before' = before \cup {<<a, e>> : a \in ReturnedOkQueued}
            /\ UNCHANGED <<putRes, resp>>
  /\ UNCHANGED <<appends, mainVars, rateVars, stepVars, crashed, getPc, getRes, Events, interf, runVars, wg, semaphore, ctxDone,
                 taskVars, promVars, shutVars>>

\* PutEvent is called for event e: if len(eq.Events) == cap(eq.Events) it
\* returns the error, else it stamps EnqueueTime = time.Now() and goes on to
\* the channel send
PutEventCheck(e) ==
  /\ ~crashed
  /\ putPc[e] = "idle"
  /\ NextToCall(e)
  /\ IF QueueFull(Events)
       THEN /\ putPc' = [putPc EXCEPT ![e] = "done"]
            /\ putRes' = [putRes EXCEPT ![e] = "full"]
            /\ resp' = [resp EXCEPT ![e] = createEventHandlerWrites(TRUE)]
            /\ UNCHANGED <<EnqueueTime, before>>
       ELSE /\ putPc' = [putPc EXCEPT ![e] = "send"]
            /\ EnqueueTime' = [EnqueueTime EXCEPT ![e] = 1]
            /\ before' = before \cup {<<a, e>> : a \in ReturnedOkQueued}
            /\ UNCHANGED <<putRes, resp>>
  /\ UNCHANGED <<appends, mainVars, rateVars, stepVars, crashed, getPc, getRes, Events, interf, runVars, wg, semaphore, ctxDone,
                 taskVars, promVars, shutVars>>

\* eq.Events <- event; return nil
PutEventSend(e) ==
  /\ ~crashed
  /\ putPc[e] = "send"
  /\ ChanCanSend(Events)
  /\ Events' = ChanSend(Events, e)
  /\ putPc' = [putPc EXCEPT ![e] = "done"]
  /\ putRes' = [putRes EXCEPT ![e] = "ok"]
  /\ resp' = [resp EXCEPT ![e] = createEventHandlerWrites(FALSE)]
  /\ interf' = (interf \cup InFlight) \ {e}
  /\ UNCHANGED <<appends, mainVars, rateVars, stepVars, crashed, getPc, getRes, EnqueueTime, before, runVars, wg, semaphore,
                 ctxDone, taskVars, promVars, shutVars>>

\* ------------------------------------------------------------- Worker.Run
\* w.wg.Add(1); defer w.wg.Done(); semaphore := make(chan struct{}, ...)
RunRegister ==
  /\ ~crashed
  /\ runPc = "start"
  /\ wg' = wg + 1
  /\ runPc' = "select"
  /\ UNCHANGED <<appends, mainVars, rateVars, stepVars, auxVars, queueVars, nEvent, semaphore, ctxDone, taskVars,
                 promVars, shutVars>>

\* select { case nEvent := <-w.EventQueue.Events: ...
\* (when the other case is ready too the runtime picks either)
RunRecv ==
  /\ ~crashed
  /\ runPc = "select"
  /\ Len(Events) > 0
  /\ nEvent' = ChanRecvValue(Events)
  /\ Events' = ChanRecvRest(Events)
  /\ interf' = interf \cup InFlight
  /\ before' = {p \in before :
                  ~(p[2] = ChanRecvValue(Events)
                    /\ p[1] \notin Range(ChanRecvRest(Events)))}
  /\ runPc' = "add"
  /\ UNCHANGED <<appends, mainVars, rateVars, stepVars, auxVars, EnqueueTime, putPc, putRes, wg, semaphore, ctxDone,
                 taskVars, promVars, shutVars>>

\* variant: cancellation is noticed only when an event is there to wake the
\* loop
RunCancelledOnEvent ==
  /\ ~crashed
  /\ runPc = "select"
  /\ ctxDone
  /\ Len(Events) > 0
  /\ runPc' = "return"
  /\ UNCHANGED <<appends, mainVars, rateVars, stepVars, auxVars, queueVars, nEvent, wg, semaphore, ctxDone,
                 taskVars, promVars, shutVars>>

\* ... case <-runCtx.Done(): return }
RunCancelled ==
  /\ ~crashed
  /\ runPc = "select"
  /\ ctxDone
  /\ runPc' = "return"
  /\ UNCHANGED <<appends, mainVars, rateVars, stepVars, auxVars, queueVars, nEvent, wg, semaphore, ctxDone,
                 taskVars, promVars, shutVars>>

\* variant: the WaitGroup is not incremented for the received event
RunAddNone ==
  /\ ~crashed
  /\ runPc = "add"
  /\ runPc' = "acquire"
  /\ UNCHANGED <<appends, mainVars, rateVars, stepVars, auxVars, queueVars, nEvent, wg, semaphore, ctxDone, taskVars,
                 promVars, shutVars>>

\* w.wg.Add(1) for the received event
RunAdd ==
  /\ ~crashed
  /\ runPc = "add"
  /\ wg' = wg + 1
  /\ runPc' = "acquire"
  /\ UNCHANGED <<appends, mainVars, rateVars, stepVars, auxVars, queueVars, nEvent, semaphore, ctxDone, taskVars,
                 promVars, shutVars>>

\* variant: the slot is taken without waiting for a free one
RunAcquireNoLimit ==
  /\ ~crashed
  /\ runPc = "acquire"
  /\ semaphore' = semaphore + 1
  /\ runPc' = "go"
  /\ UNCHANGED <<appends, mainVars, rateVars, stepVars, auxVars, queueVars, nEvent, wg, ctxDone, taskVars,
                 promVars, shutVars>>

\* variant: the semaphore admits one task more than its capacity
RunAcquireOneMore ==
  /\ ~crashed
  /\ runPc = "acquire"
  /\ semaphore <= CmdmaxWorkerGoroutines
  /\ semaphore' = semaphore + 1
  /\ runPc' = "go"
  /\ UNCHANGED <<appends, mainVars, rateVars, stepVars, auxVars, queueVars, nEvent, wg, ctxDone, taskVars,
                 promVars, shutVars>>

\* variant: the loop waits until the tasks it started have all finished
RunAcquireSerial ==
  /\ ~crashed
  /\ runPc = "acquire"
  /\ semaphore = 0
  /\ semaphore' = semaphore + 1
  /\ runPc' = "go"
  /\ UNCHANGED <<appends, mainVars, rateVars, stepVars, auxVars, queueVars, nEvent, wg, ctxDone, taskVars,
                 promVars, shutVars>>

\* semaphore <- struct{}{}: blocks while the semaphore channel is full
RunAcquire ==
  /\ ~crashed
  /\ runPc = "acquire"
  /\ semaphore < CmdmaxWorkerGoroutines
  /\ semaphore' = semaphore + 1
  /\ runPc' = "go"
  /\ UNCHANGED <<appends, mainVars, rateVars, stepVars, auxVars, queueVars, nEvent, wg, ctxDone, taskVars,
                 promVars, shutVars>>

\* variant: the loop goes back to the select without starting the task
RunGoDrop ==
  /\ ~crashed
  /\ runPc = "go"
  /\ nEvent' = NoEvent
  /\ runPc' = "select"
  /\ UNCHANGED <<appends, mainVars, rateVars, stepVars, auxVars, queueVars, wg, semaphore, ctxDone, taskVars,
                 promVars, shutVars>>

\* go func(event data.Event) {...}(nEvent), back to the select
RunGo ==
  /\ ~crashed
  /\ runPc = "go"
  /\ taskPc' = [taskPc EXCEPT ![nEvent] = "process"]
  /\ nEvent' = NoEvent
  /\ runPc' = "select"
  /\ UNCHANGED <<appends, mainVars, rateVars, stepVars, auxVars, queueVars, wg, semaphore, ctxDone, calls, outcome,
                 promVars, shutVars>>

\* the deferred w.wg.Done() of Run
RunReturn ==
  /\ ~crashed
  /\ runPc = "return"
  /\ wg' = wg - 1
  /\ runPc' = "exited"
  /\ UNCHANGED <<appends, mainVars, rateVars, stepVars, auxVars, queueVars, nEvent, semaphore, ctxDone, taskVars,
                 promVars, shutVars>>

\* ------------------------------------------------- the task goroutine
\* processEvent returns nil or an error (marshalling, open or write failed)
ProcessEventResults == {"ok", "err"}

\* PromEventTotalProcessStatus.WithLabelValues(status, EventType).Inc()
IncStatus(c, status, e) == [c EXCEPT ![<<status, EventType(e)>>] = @ + 1]

\* variant: the task goes through the backoff and the retry after a first
\* call that succeeded, too
TaskProcessResultRetriesOk(e, r) ==
  /\ ~crashed
  /\ taskPc[e] = "process"
  /\ calls' = [calls EXCEPT ![e] = Append(@, r)]
  /\ taskPc' = [taskPc EXCEPT ![e] = "backoff"]
  /\ appends' = [appends EXCEPT ![e] = IF r = "ok" THEN @ + 1 ELSE @]
  /\ UNCHANGED <<mainVars, rateVars, auxVars, queueVars, runVars, wg, semaphore,
                 ctxDone, outcome, promVars, shutVars>>

\* what the task does with the result r of its first processEvent call: on
\* success the success counters are incremented and the body returns.
\* processEvent returns nil exactly when file.Write has returned nil
TaskProcessResult(e, r) ==
  /\ ~crashed
  /\ taskPc[e] = "process"
  /\ calls' = [calls EXCEPT ![e] = Append(@, r)]
  /\ IF r = "ok"
       THEN /\ outcome' = [outcome EXCEPT ![e] = "success"]
            /\ PromEventTotalProcessStatus' =
                 IncStatus(PromEventTotalProcessStatus, "success", e)
            /\ PromEventTotalProcessed' = PromEventTotalProcessed + 1
            /\ taskPc' = [taskPc EXCEPT ![e] = "release"]
       ELSE /\ taskPc' = [taskPc EXCEPT ![e] = "backoff"]
            /\ UNCHANGED <<outcome, PromEventTotalProcessStatus,
                           PromEventTotalProcessed>>
  /\ appends' = [appends EXCEPT ![e] = IF r = "ok" THEN @ + 1 ELSE @]
  /\ UNCHANGED <<mainVars, rateVars, auxVars, queueVars, runVars, wg, semaphore, ctxDone,
                 PromEventRetryCount, shutVars>>

\* err := w.processEvent(spanCtx, event): the first attempt, the call taken
\* as one step
TaskProcess(e) ==
  /\ \E r \in ProcessEventResults : TaskProcessResult(e, r)
  /\ UNCHANGED stepVars

\* variant: the skipped path returns without giving the slot back
TaskBackoffCheckSkipKeepsSlot(e) ==
  /\ ~crashed
  /\ taskPc[e] = "backoff"
  /\ IF ctxDone
       THEN /\ outcome' = [outcome EXCEPT ![e] = "skipped"]
            /\ PromEventTotalProcessStatus' =
                 IncStatus(PromEventTotalProcessStatus, "skipped", e)
            /\ taskPc' = [taskPc EXCEPT ![e] = "wgdone"]
            /\ UNCHANGED PromEventRetryCount
       ELSE /\ PromEventRetryCount' =
                 [PromEventRetryCount EXCEPT ![EventType(e)] = @ + 1]
            /\ taskPc' = [taskPc EXCEPT ![e] = "retry"]
            /\ UNCHANGED <<outcome, PromEventTotalProcessStatus>>
  /\ UNCHANGED <<appends, mainVars, rateVars, stepVars, auxVars, queueVars, runVars, wg, semaphore, ctxDone, calls,
                 PromEventTotalProcessed, shutVars>>

\* variant: the retry counter is incremented before the cancellation check
TaskBackoffCheckIncFirst(e) ==
  /\ ~crashed
  /\ taskPc[e] = "backoff"
  /\ PromEventRetryCount' = [PromEventRetryCount EXCEPT ![EventType(e)] = @ + 1]
  /\ IF ctxDone
       THEN /\ outcome' = [outcome EXCEPT ![e] = "skipped"]
            /\ PromEventTotalProcessStatus' =
                 IncStatus(PromEventTotalProcessStatus, "skipped", e)
            /\ taskPc' = [taskPc EXCEPT ![e] = "release"]
       ELSE /\ taskPc' = [taskPc EXCEPT ![e] = "retry"]
            /\ UNCHANGED <<outcome, PromEventTotalProcessStatus>>
  /\ UNCHANGED <<appends, mainVars, rateVars, stepVars, auxVars, queueVars, runVars, wg, semaphore, ctxDone, calls,
                 PromEventTotalProcessed, shutVars>>

\* variant: the cancellation check is missing, the task always retries
TaskBackoffCheckNoCancel(e) ==
  /\ ~crashed
  /\ taskPc[e] = "backoff"
  /\ PromEventRetryCount' = [PromEventRetryCount EXCEPT ![EventType(e)] = @ + 1]
  /\ taskPc' = [taskPc EXCEPT ![e] = "retry"]
  /\ UNCHANGED <<appends, mainVars, rateVars, stepVars, auxVars, queueVars, runVars, wg, semaphore, ctxDone, calls, outcome,
                 PromEventTotalProcessStatus, PromEventTotalProcessed, shutVars>>

\* variant: a skipped event is counted as processed
TaskBackoffCheckSkipCounts(e) ==
  /\ ~crashed
  /\ taskPc[e] = "backoff"
  /\ IF ctxDone
       THEN /\ outcome' = [outcome EXCEPT ![e] = "skipped"]
            /\ PromEventTotalProcessStatus' =
                 IncStatus(PromEventTotalProcessStatus, "skipped", e)
            /\ taskPc' = [taskPc EXCEPT ![e] = "release"]
            /\ PromEventTotalProcessed' = PromEventTotalProcessed + 1
            /\ UNCHANGED PromEventRetryCount
       ELSE /\ PromEventRetryCount' =
                 [PromEventRetryCount EXCEPT ![EventType(e)] = @ + 1]
            /\ taskPc' = [taskPc EXCEPT ![e] = "retry"]
            /\ UNCHANGED <<outcome, PromEventTotalProcessStatus,
                           PromEventTotalProcessed>>
  /\ UNCHANGED <<appends, mainVars, rateVars, stepVars, auxVars, queueVars, runVars, wg, semaphore, ctxDone, calls,
                 shutVars>>

\* time.Sleep(2 * time.Second) is over; select { case <-runCtx.Done(): skipped,
\* return; default: }; PromEventRetryCount.Inc()
TaskBackoffCheck(e) ==
  /\ ~crashed
  /\ taskPc[e] = "backoff"
  /\ IF ctxDone
       THEN /\ outcome' = [outcome EXCEPT ![e] = "skipped"]
            /\ PromEventTotalProcessStatus' =
                 IncStatus(PromEventTotalProcessStatus, "skipped", e)
            /\ taskPc' = [taskPc EXCEPT ![e] = "release"]
            /\ UNCHANGED PromEventRetryCount
       ELSE /\ PromEventRetryCount' =
                 [PromEventRetryCount EXCEPT ![EventType(e)] = @ + 1]
            /\ taskPc' = [taskPc EXCEPT ![e] = "retry"]
            /\ UNCHANGED <<outcome, PromEventTotalProcessStatus>>
  /\ UNCHANGED <<appends, mainVars, rateVars, stepVars, auxVars, queueVars, runVars, wg, semaphore, ctxDone, calls,
                 PromEventTotalProcessed, shutVars>>

\* variant: a failed retry goes back to the backoff instead of giving up
TaskRetryLoop(e) ==
  /\ ~crashed
  /\ taskPc[e] = "retry"
  /\ \E r \in ProcessEventResults :
       /\ calls' = [calls EXCEPT ![e] = Append(@, r)]
       /\ appends' = [appends EXCEPT ![e] = IF r = "ok" THEN @ + 1 ELSE @]
       /\ IF r = "ok"
            THEN /\ outcome' = [outcome EXCEPT ![e] = "success"]
                 /\ PromEventTotalProcessStatus' =
                      IncStatus(PromEventTotalProcessStatus, "success", e)
                 /\ PromEventTotalProcessed' = PromEventTotalProcessed + 1
                 /\ taskPc' = [taskPc EXCEPT ![e] = "release"]
            ELSE /\ taskPc' = [taskPc EXCEPT ![e] = "backoff"]
                 /\ UNCHANGED <<outcome, PromEventTotalProcessStatus,
                                PromEventTotalProcessed>>
  /\ UNCHANGED <<mainVars, rateVars, stepVars, auxVars, queueVars, runVars, wg, semaphore, ctxDone,
                 PromEventRetryCount, shutVars>>

\* variant: an event whose retry failed is put back into the queue when
\* there is room
TaskRetryResultRequeue(e, r) ==
  /\ ~crashed
  /\ taskPc[e] = "retry"
  /\ calls' = [calls EXCEPT ![e] = Append(@, r)]
  /\ outcome' = [outcome EXCEPT ![e] = IF r = "ok" THEN "success" ELSE "failed"]
  /\ PromEventTotalProcessStatus' =
       IncStatus(PromEventTotalProcessStatus,
                 IF r = "ok" THEN "success" ELSE "failed", e)
  /\ PromEventTotalProcessed' = PromEventTotalProcessed + 1
  /\ taskPc' = [taskPc EXCEPT ![e] = "release"]
  /\ Events' = IF r = "err" /\ ChanCanSend(Events) THEN ChanSend(Events, e)
                ELSE Events
  /\ appends' = [appends EXCEPT ![e] = IF r = "ok" THEN @ + 1 ELSE @]
  /\ UNCHANGED <<mainVars, rateVars, auxVars, EnqueueTime, putPc, putRes, interf, before, runVars,
                 wg, semaphore, ctxDone, PromEventRetryCount, shutVars>>

\* variant: the error of a failed retry unwinds into the dispatch loop and
\* ends it
TaskRetryResultStopsLoop(e, r) ==
  /\ ~crashed
  /\ taskPc[e] = "retry"
  /\ calls' = [calls EXCEPT ![e] = Append(@, r)]
  /\ outcome' = [outcome EXCEPT ![e] = IF r = "ok" THEN "success" ELSE "failed"]
  /\ PromEventTotalProcessStatus' =
       IncStatus(PromEventTotalProcessStatus,
                 IF r = "ok" THEN "success" ELSE "failed", e)
  /\ PromEventTotalProcessed' = PromEventTotalProcessed + 1
  /\ taskPc' = [taskPc EXCEPT ![e] = "release"]
  /\ runPc' = IF r = "err" /\ runPc = "select" THEN "return" ELSE runPc
  /\ appends' = [appends EXCEPT ![e] = IF r = "ok" THEN @ + 1 ELSE @]
  /\ UNCHANGED <<mainVars, rateVars, auxVars, queueVars, nEvent, wg, semaphore, ctxDone,
                 PromEventRetryCount, shutVars>>

\* what the task does with the result r of the retry: failed or success
TaskRetryResult(e, r) ==
  /\ ~crashed
  /\ taskPc[e] = "retry"
  /\ calls' = [calls EXCEPT ![e] = Append(@, r)]
  /\ outcome' = [outcome EXCEPT ![e] = IF r = "ok" THEN "success" ELSE "failed"]
  /\ PromEventTotalProcessStatus' =
       IncStatus(PromEventTotalProcessStatus,
                 IF r = "ok" THEN "success" ELSE "failed", e)
  /\ PromEventTotalProcessed' = PromEventTotalProcessed + 1
  /\ taskPc' = [taskPc EXCEPT ![e] = "release"]
  /\ appends' = [appends EXCEPT ![e] = IF r = "ok" THEN @ + 1 ELSE @]
  /\ UNCHANGED <<mainVars, rateVars, auxVars, queueVars, runVars, wg, semaphore, ctxDone,
                 PromEventRetryCount, shutVars>>

\* err := w.processEvent(spanCtx, event): the retry, the call taken as one
\* step
TaskRetry(e) ==
  /\ \E r \in ProcessEventResults : TaskRetryResult(e, r)
  /\ UNCHANGED stepVars

\* variant: the task exits without giving its slot back
TaskReleaseLeak(e) ==
  /\ ~crashed
  /\ taskPc[e] = "release"
  /\ taskPc' = [taskPc EXCEPT ![e] = "wgdone"]
  /\ UNCHANGED <<appends, mainVars, rateVars, stepVars, auxVars, queueVars, runVars, wg, semaphore, ctxDone, calls,
                 outcome, promVars, shutVars>>

\* defer func() { <-semaphore }()
TaskRelease(e) ==
  /\ ~crashed
  /\ taskPc[e] = "release"
  /\ semaphore' = semaphore - 1
  /\ taskPc' = [taskPc EXCEPT ![e] = "wgdone"]
  /\ UNCHANGED <<appends, mainVars, rateVars, stepVars, auxVars, queueVars, runVars, wg, ctxDone, calls, outcome,
                 promVars, shutVars>>

\* defer w.wg.Done()
TaskDone(e) ==
  /\ ~crashed
  /\ taskPc[e] = "wgdone"
  /\ wg' = wg - 1
  /\ taskPc' = [taskPc EXCEPT ![e] = "exited"]
  /\ UNCHANGED <<appends, mainVars, rateVars, stepVars, auxVars, queueVars, runVars, semaphore, ctxDone, calls,
                 outcome, promVars, shutVars>>

\* -------------------------------------------------------- Worker.Shutdown
\* w.Cancel(); done := make(chan struct{}); go func() { w.wg.Wait(); ... }()
ShutdownCancel ==
  /\ ~crashed
  /\ shutPc = "idle"
  /\ ctxDone' = TRUE
  /\ shutPc' = "wait"
  /\ UNCHANGED <<appends, mainVars, rateVars, stepVars, auxVars, queueVars, runVars, wg, semaphore, taskVars,
                 promVars, done>>

\* w.wg.Wait() returns when the counter is zero; close(done)
ShutdownWaiter ==
  /\ ~crashed
  /\ shutPc # "idle"
  /\ ~done
  /\ wg = 0
  /\ done' = TRUE
  /\ UNCHANGED <<appends, mainVars, rateVars, stepVars, auxVars, queueVars, runVars, wg, semaphore, ctxDone,
                 taskVars, promVars, shutPc>>

\* case <-done: return nil
ShutdownNil ==
  /\ ~crashed
  /\ shutPc = "wait"
  /\ done
  /\ shutPc' = "nil"
  /\ UNCHANGED <<appends, mainVars, rateVars, stepVars, auxVars, queueVars, runVars, wg, semaphore, ctxDone,
                 taskVars, promVars, done>>

\* variant: on the deadline the tasks still running are aborted
ShutdownTimeoutAbort ==
  /\ ~crashed
  /\ shutPc = "wait"
  /\ shutPc' = "timeout"
  /\ taskPc' = [e \in EventIds |->
                  IF taskPc[e] \in {"process", "backoff", "retry"}
                    THEN "exited" ELSE taskPc[e]]
  /\ UNCHANGED <<appends, mainVars, rateVars, stepVars, auxVars, queueVars, runVars, wg, semaphore, ctxDone,
                 calls, outcome, promVars, done>>

\* case <-ctx.Done(): return ctx.Err()  (the deadline may expire at any time)
ShutdownTimeout ==
  /\ ~crashed
  /\ shutPc = "wait"
  /\ shutPc' = "timeout"
  /\ UNCHANGED <<appends, mainVars, rateVars, stepVars, auxVars, queueVars, runVars, wg, semaphore, ctxDone,
                 taskVars, promVars, done>>

\* ------------------------------------------------------------------ system
Next ==
  \/ \E e \in EventIds : PutEventCheck(e)
  \/ \E e \in EventIds : PutEventSend(e)
  \/ RunRegister
  \/ RunRecv
  \/ RunCancelled
  \/ RunAdd
  \/ RunAcquire
  \/ RunGo
  \/ RunReturn
  \/ \E e \in EventIds : TaskProcess(e)
  \/ \E e \in EventIds : TaskBackoffCheck(e)
  \/ \E e \in EventIds : TaskRetry(e)
  \/ \E e \in EventIds : TaskRelease(e)
  \/ \E e \in EventIds : TaskDone(e)
  \/ ShutdownCancel
  \/ ShutdownWaiter
  \/ ShutdownNil
  \/ ShutdownTimeout

Spec == Init /\ [][Next]_vars

\* ----------------------------------------------- a panic in a task goroutine
\* processEvent (or any other statement of the task body) panics: the task
\* goroutine has no recover, so its deferred calls run (<-semaphore, then
\* w.wg.Done()) and the Go runtime terminates the process; the recover of
\* BackgroundJob is on the stack of Run's goroutine only
TaskPanic(e) ==
  /\ ~crashed
  /\ taskPc[e] \in {"process", "retry"}
  /\ semaphore' = semaphore - 1
  /\ wg' = wg - 1
  /\ taskPc' = [taskPc EXCEPT ![e] = "exited"]
  /\ crashed' = TRUE
  /\ UNCHANGED <<appends, mainVars, rateVars, stepVars, resp, getPc, getRes, queueVars, runVars, ctxDone, calls,
                 outcome, promVars, shutVars>>

\* the system with tasks that may panic
NextPanic ==
  \/ Next
  \/ \E e \in EventIds : TaskPanic(e)

SpecPanic == Init /\ [][NextPanic]_vars

\* ---------------------------------------------------------------- GetEvent
\* GetEvent is called: if len(eq.Events) == 0 it returns nil, else it goes on
\* to the channel receive
GetEventCheck ==
  /\ ~crashed
  /\ getPc = "idle"
  /\ IF Len(Events) = 0
       THEN getRes' = NoEvent /\ getPc' = "idle"
       ELSE getPc' = "recv" /\ UNCHANGED getRes
  /\ UNCHANGED <<appends, mainVars, rateVars, stepVars, crashed, resp, queueVars, runVars, wg, semaphore, ctxDone,
                 taskVars, promVars, shutVars>>

\* event := <-eq.Events; return event (blocks while the channel is empty)
GetEventRecv ==
  /\ ~crashed
  /\ getPc = "recv"
  /\ Len(Events) > 0
  /\ getRes' = ChanRecvValue(Events)
  /\ Events' = ChanRecvRest(Events)
  /\ interf' = interf \cup InFlight
  /\ before' = {p \in before :
                  ~(p[2] = ChanRecvValue(Events)
                    /\ p[1] \notin Range(ChanRecvRest(Events)))}
  /\ getPc' = "idle"
  /\ UNCHANGED <<appends, mainVars, rateVars, stepVars, crashed, resp, EnqueueTime, putPc, putRes, runVars, wg,
                 semaphore, ctxDone, taskVars, promVars, shutVars>>

\* the system with a second consumer that calls GetEvent
NextGet ==
  \/ Next
  \/ GetEventCheck
  \/ GetEventRecv

SpecGet == Init /\ [][NextGet]_vars

\* ------------------------------------------------- inside processEvent
\* helpers.GetGoroutineID in the task goroutine of e: the runtime's id of
\* that goroutine, a positive number, the same in both attempts
GoroutineID(e) == 10 + e

\* BaseEvent.GetCommonMetadata: the fields that are fixed at construction
\* and the current ThreadID
GetMetadata(e) ==
  [event_id |-> e, event_type |-> EventType(e), thread_id |-> ThreadID[e]]

\* the decimal digits json writes for a non-negative integer
RECURSIVE DecDigits(_)
DecDigits(n) == IF n < 10 THEN <<n>> ELSE DecDigits(n \div 10) \o <<n % 10>>

\* the token json writes for a key or a string value of the metadata; the
\* tokens of the digits are the digits
TokenCode(t) ==
  CASE t = "event_id" -> 11 [] t = "event_type" -> 12 [] t = "thread_id" -> 13
    [] t = "log" -> 14 [] t = "metric" -> 15

\* helpers.MarshalJson of the metadata map: json.Encoder writes the keys in
\* sorted order, each with its value
MarshalJson(m) ==
  <<TokenCode("event_id")>> \o DecDigits(m.event_id)
    \o <<TokenCode("event_type"), TokenCode(m.event_type)>>
    \o <<TokenCode("thread_id")>> \o DecDigits(m.thread_id)

\* hasher.Write(jMeta); hasher.Sum(nil): a digest of all of jMeta, in 16 bits
RECURSIVE Md5(_)
Md5(j) ==
  IF j = <<>> THEN 7
  ELSE (31 * Md5(SubSeq(j, 1, Len(j) - 1)) + j[Len(j)]) % 65536

\* what one processEvent call computes from the event's metadata
Digest(e) ==
  [jMeta |-> MarshalJson(GetMetadata(e)),
   metaHashHex |-> Md5(MarshalJson(GetMetadata(e))),
   metaLength |-> Len(MarshalJson(GetMetadata(e)))]

\* the metadata is marshalled and hashed, and after that the goroutine id is
\* written to BaseEvent.ThreadID; the simulated latency and the marshalling
\* of the result follow
processEventAssign(e) ==
  /\ ~crashed
  /\ taskPc[e] \in {"process", "retry"}
  /\ procPc[e] = "idle"
  /\ procPc' = [procPc EXCEPT ![e] = "assigned"]
  /\ attempts' = [attempts EXCEPT ![e] = Append(@, Digest(e))]
  /\ ThreadID' = [ThreadID EXCEPT ![e] = GoroutineID(e)]
  /\ ThreadIDSets' = [ThreadIDSets EXCEPT ![e] = @ + 1]
  /\ UNCHANGED <<appends, mainVars, rateVars, auxVars, fileLock, slept, queueVars, runVars, wg, semaphore, ctxDone,
                 taskVars, promVars, shutVars>>

\* variant: the lock is taken without waiting for its holder
processEventLockNoWait(e) ==
  /\ ~crashed
  /\ procPc[e] = "assigned"
  /\ fileLock' = e
  /\ procPc' = [procPc EXCEPT ![e] = "locked"]
  /\ UNCHANGED <<appends, mainVars, rateVars, auxVars, ThreadIDSets, ThreadID, attempts, slept, queueVars, runVars, wg, semaphore,
                 ctxDone, taskVars, promVars, shutVars>>

\* w.fileLock.Lock(); defer w.fileLock.Unlock(): blocks while another task
\* holds the mutex; os.OpenFile and file.Write follow
processEventLock(e) ==
  /\ ~crashed
  /\ procPc[e] = "assigned"
  /\ fileLock = NoEvent
  /\ fileLock' = e
  /\ procPc' = [procPc EXCEPT ![e] = "locked"]
  /\ UNCHANGED <<appends, mainVars, rateVars, auxVars, ThreadIDSets, ThreadID, attempts, slept, queueVars, runVars, wg, semaphore,
                 ctxDone, taskVars, promVars, shutVars>>

\* processEvent returns r: an error of the first MarshalJson before ThreadID
\* is written, an error of the second MarshalJson before Lock(), or, holding
\* the lock, the error of OpenFile or Write or nil; the deferred Unlock runs
\* on every return that follows Lock()
processEventReturn(e) ==
  /\ \E r \in ProcessEventResults :
       /\ r = "ok" => procPc[e] = "locked"
       /\ TaskProcessResult(e, r) \/ TaskRetryResult(e, r)
  /\ procPc' = [procPc EXCEPT ![e] = "idle"]
  /\ fileLock' = IF fileLock = e THEN NoEvent ELSE fileLock
  /\ UNCHANGED <<ThreadIDSets, ThreadID, attempts, slept>>

\* the worker with the steps inside processEvent, while no Shutdown is called
NextFile ==
  \/ \E e \in EventIds : PutEventCheck(e)
  \/ \E e \in EventIds : PutEventSend(e)
  \/ RunRegister
  \/ RunRecv
  \/ RunAdd
  \/ RunAcquire
  \/ RunGo
  \/ \E e \in EventIds : processEventAssign(e)
  \/ \E e \in EventIds : processEventLock(e)
  \/ \E e \in EventIds : processEventReturn(e)
  \/ \E e \in EventIds : TaskBackoffCheck(e)
  \/ \E e \in EventIds : TaskRelease(e)
  \/ \E e \in EventIds : TaskDone(e)

SpecFile == Init /\ [][NextFile]_vars

\* ------------------------------------------------- inside the backoff
\* time.Sleep(2 * time.Second) returns: the two seconds have elapsed
TaskSleep(e) ==
  /\ ~crashed
  /\ taskPc[e] = "backoff"
  /\ ~slept[e]
  /\ slept' = [slept EXCEPT ![e] = TRUE]
  /\ UNCHANGED <<appends, mainVars, rateVars, auxVars, procPc, fileLock, ThreadIDSets, ThreadID, attempts, queueVars, runVars,
                 wg, semaphore, ctxDone, taskVars, promVars, shutVars>>

\* the select on runCtx.Done() that follows the sleep
TaskWake(e) ==
  /\ slept[e]
  /\ TaskBackoffCheck(e)

\* the system with the sleep of the backoff as a step of its own
NextBackoff ==
  \/ \E e \in EventIds : PutEventCheck(e)
  \/ \E e \in EventIds : PutEventSend(e)
  \/ RunRegister
  \/ RunRecv
  \/ RunCancelled
  \/ RunAdd
  \/ RunAcquire
  \/ RunGo
  \/ RunReturn
  \/ \E e \in EventIds : TaskProcess(e)
  \/ \E e \in EventIds : TaskSleep(e)
  \/ \E e \in EventIds : TaskWake(e)
  \/ \E e \in EventIds : TaskRetry(e)
  \/ \E e \in EventIds : TaskRelease(e)
  \/ \E e \in EventIds : TaskDone(e)
  \/ ShutdownCancel
  \/ ShutdownWaiter
  \/ ShutdownNil
  \/ ShutdownTimeout

SpecBackoff == Init /\ [][NextBackoff]_vars

\* ------------------------------------------------- ApiServer.rateLimit
workerVars == <<queueVars, runVars, wg, semaphore, ctxDone, taskVars,
                promVars, shutVars, auxVars, stepVars, appends>>

\* a request with remote address a enters the handler rateLimit returned.
\* With rate limiting disabled the handler calls next.ServeHTTP at once
RateArrive(r, a) ==
  /\ reqPc[r] = "new"
  /\ reqAddr' = [reqAddr EXCEPT ![r] = a]
  /\ IF CmdEnableRateLimit
       THEN /\ reqPc' = [reqPc EXCEPT ![r] = "global"]
            /\ UNCHANGED reqNext
       ELSE /\ reqPc' = [reqPc EXCEPT ![r] = "done"]
            /\ reqNext' = [reqNext EXCEPT ![r] = TRUE]
  /\ UNCHANGED <<CmdEnableRateLimit, nRL, pcnRL, expiring, reqGlobal, reqClient,
                 reqStatus, workerVars, mainVars>>

\* if !nRL.Allow() { api.rateLimitExceedResponse(w, r); return }: Allow takes
\* one token when the bucket has one. Then net.SplitHostPort(r.RemoteAddr):
\* on an error serverErrorResponse and return
RateGlobalAllow(r) ==
  /\ reqPc[r] = "global"
  /\ IF nRL = 0
       THEN /\ reqGlobal' = [reqGlobal EXCEPT ![r] = "refused"]
            /\ reqStatus' = [reqStatus EXCEPT ![r] = StatusTooManyRequests]
            /\ reqPc' = [reqPc EXCEPT ![r] = "done"]
            /\ UNCHANGED nRL
       ELSE /\ nRL' = nRL - 1
            /\ reqGlobal' = [reqGlobal EXCEPT ![r] = "allowed"]
            /\ IF reqAddr[r] = BadAddr
                 THEN /\ reqStatus' = [reqStatus EXCEPT ![r] = StatusInternalServerError]
                      /\ reqPc' = [reqPc EXCEPT ![r] = "done"]
                 ELSE /\ reqPc' = [reqPc EXCEPT ![r] = "lookup"]
                      /\ UNCHANGED reqStatus
  /\ UNCHANGED <<CmdEnableRateLimit, pcnRL, expiring, reqAddr, reqClient, reqNext,
                 workerVars, mainVars>>

\* api.mu.Lock(); limiter, found := pcnRL[clientAddr]; a client that is not
\* in the map gets a new limiter with a full bucket and an expiry timer, a
\* client that is has its timer reset; api.mu.Unlock()
RateClientLookup(r) ==
  /\ reqPc[r] = "lookup"
  /\ pcnRL' = IF pcnRL[reqAddr[r]] = NoLimiter
                THEN [pcnRL EXCEPT ![reqAddr[r]] = pcbusrtSize]
                ELSE pcnRL
  /\ reqPc' = [reqPc EXCEPT ![r] = "allow"]
  /\ UNCHANGED <<CmdEnableRateLimit, nRL, expiring, reqAddr, reqGlobal, reqClient,
                 reqStatus, reqNext, workerVars, mainVars>>

\* variant: the request is passed on whatever the client limiter answered
RateClientAllowPassesRefused(r) ==
  /\ reqPc[r] = "allow"
  /\ reqPc' = [reqPc EXCEPT ![r] = "done"]
  /\ IF pcnRL[reqAddr[r]] = NoLimiter
       THEN /\ reqStatus' = [reqStatus EXCEPT ![r] = StatusInternalServerError]
            /\ UNCHANGED <<pcnRL, reqClient, reqNext>>
       ELSE IF pcnRL[reqAddr[r]] = 0
       THEN /\ reqClient' = [reqClient EXCEPT ![r] = "refused"]
            /\ reqStatus' = [reqStatus EXCEPT ![r] = StatusTooManyRequests]
            /\ reqNext' = [reqNext EXCEPT ![r] = TRUE]
            /\ UNCHANGED pcnRL
       ELSE /\ pcnRL' = [pcnRL EXCEPT ![reqAddr[r]] = @ - 1]
            /\ reqClient' = [reqClient EXCEPT ![r] = "allowed"]
            /\ reqNext' = [reqNext EXCEPT ![r] = TRUE]
            /\ UNCHANGED reqStatus
  /\ UNCHANGED <<CmdEnableRateLimit, nRL, expiring, reqAddr, reqGlobal, workerVars, mainVars>>

\* api.mu.RLock(); allow := pcnRL[clientAddr].Limit.Allow(); api.mu.RUnlock()
\* if !allow { api.rateLimitExceedResponse(w, r); return }; next.ServeHTTP(w, r).
\* When the expiry goroutine has deleted the entry since the Unlock, the map
\* yields a nil *ClientRateLimiter and the dereference panics; panicRecovery
\* answers with serverErrorResponse
RateClientAllow(r) ==
  /\ reqPc[r] = "allow"
  /\ reqPc' = [reqPc EXCEPT ![r] = "done"]
  /\ IF pcnRL[reqAddr[r]] = NoLimiter
       THEN /\ reqStatus' = [reqStatus EXCEPT ![r] = StatusInternalServerError]
            /\ UNCHANGED <<pcnRL, reqClient, reqNext>>
       ELSE IF pcnRL[reqAddr[r]] = 0
       THEN /\ reqClient' = [reqClient EXCEPT ![r] = "refused"]
            /\ reqStatus' = [reqStatus EXCEPT ![r] = StatusTooManyRequests]
            /\ UNCHANGED <<pcnRL, reqNext>>
       ELSE /\ pcnRL' = [pcnRL EXCEPT ![reqAddr[r]] = @ - 1]
            /\ reqClient' = [reqClient EXCEPT ![r] = "allowed"]
            /\ reqNext' = [reqNext EXCEPT ![r] = TRUE]
            /\ UNCHANGED reqStatus
  /\ UNCHANGED <<CmdEnableRateLimit, nRL, expiring, reqAddr, reqGlobal, workerVars, mainVars>>

\* <-limiter.LastAccessTime.C: the client's timer fires, 30 s after it was
\* created or last reset, and its expiry goroutine receives. No handler is
\* between its Unlock and its RLock for this client then: a handler passes
\* that window in far less than the 30 s it has just set the timer to
RateTimerFire(c) ==
  /\ pcnRL[c] # NoLimiter
  /\ ~expiring[c]
  /\ \A r \in RequestIds : ~(reqPc[r] = "allow" /\ reqAddr[r] = c)
  /\ expiring' = [expiring EXCEPT ![c] = TRUE]
  /\ UNCHANGED <<CmdEnableRateLimit, nRL, pcnRL, reqPc, reqAddr, reqGlobal,
                 reqClient, reqStatus, reqNext, workerVars, mainVars>>

\* api.mu.Lock(); delete(pcnRL, client); api.mu.Unlock(): the expiry
\* goroutine, which a Reset of the timer no longer stops
RateExpire(c) ==
  /\ expiring[c]
  /\ expiring' = [expiring EXCEPT ![c] = FALSE]
  /\ pcnRL' = [pcnRL EXCEPT ![c] = NoLimiter]
  /\ UNCHANGED <<CmdEnableRateLimit, nRL, reqPc, reqAddr, reqGlobal, reqClient,
                 reqStatus, reqNext, workerVars, mainVars>>

\* time passes: the global bucket regains a token, up to its burst size
RateRefillGlobal ==
  /\ CmdEnableRateLimit
  /\ nRL < busrtSize
  /\ nRL' = nRL + 1
  /\ UNCHANGED <<CmdEnableRateLimit, pcnRL, expiring, reqPc, reqAddr, reqGlobal,
                 reqClient, reqStatus, reqNext, workerVars, mainVars>>

\* time passes: a client's bucket regains a token, up to its burst size
RateRefillClient(c) ==
  /\ pcnRL[c] # NoLimiter
  /\ pcnRL[c] < pcbusrtSize
  /\ pcnRL' = [pcnRL EXCEPT ![c] = @ + 1]
  /\ UNCHANGED <<CmdEnableRateLimit, nRL, expiring, reqPc, reqAddr, reqGlobal, reqClient,
                 reqStatus, reqNext, workerVars, mainVars>>

NextRate ==
  \/ \E r \in RequestIds, a \in Clients \cup {BadAddr} : RateArrive(r, a)
  \/ \E r \in RequestIds : RateGlobalAllow(r)
  \/ \E r \in RequestIds : RateClientLookup(r)
  \/ \E r \in RequestIds : RateClientAllow(r)
  \/ \E c \in Clients : RateTimerFire(c)
  \/ \E c \in Clients : RateExpire(c)
  \/ RateRefillGlobal
  \/ \E c \in Clients : RateRefillClient(c)

\* the server started with rate limiting enabled or disabled
InitRate ==
  InitWorker /\ InitRateLimit /\ InitMain /\ CmdEnableRateLimit \in BOOLEAN

SpecRate == InitRate /\ [][NextRate]_vars

\* ------------------------------------------------- Main, gracefulShutdown
\* everything but Main, gracefulShutdown, the handlers and crashed
notMainVars == <<queueVars, runVars, wg, semaphore, ctxDone, taskVars,
                 promVars, shutVars, resp, getPc, getRes, stepVars, rateVars,
                 appends>>

\* the HTTP server accepts a request and starts its handler; the listener is
\* open until nSrv.Shutdown is called
HandlerStart(e) ==
  /\ ~crashed
  /\ hPc[e] = "new"
  /\ \A x \in EventIds : x < e => hPc[x] # "new"
  /\ gsPc = "signal"
  /\ hPc' = [hPc EXCEPT ![e] = "active"]
  /\ UNCHANGED <<appends, mainPc, gsPc, crashed, notMainVars>>

\* createEventHandler calls PutEvent
HandlerPut(e) ==
  /\ hPc[e] = "active"
  /\ PutEventCheck(e)

\* the handler has written its response and returns
HandlerDone(e) ==
  /\ ~crashed
  /\ hPc[e] = "active"
  /\ putPc[e] = "done"
  /\ hPc' = [hPc EXCEPT ![e] = "done"]
  /\ UNCHANGED <<appends, mainPc, gsPc, crashed, notMainVars>>

\* s := <-sigChan; ctx, cancel := context.WithTimeout(..., 20 s); the loop
\* over shutdownFuncs calls nSrv.Shutdown(ctx), which closes the listener
GsSignal ==
  /\ ~crashed
  /\ gsPc = "signal"
  /\ gsPc' = "srv"
  /\ UNCHANGED <<appends, mainPc, hPc, crashed, notMainVars>>

\* ListenAndServe returns http.ErrServerClosed as soon as Shutdown has been
\* called; Main goes on to err = <-shutdownChan
MainServeClosed ==
  /\ ~crashed
  /\ mainPc = "serve"
  /\ gsPc # "signal"
  /\ mainPc' = "recv"
  /\ UNCHANGED <<appends, gsPc, hPc, crashed, notMainVars>>

\* ListenAndServe returns another error (the listener fails): Main logs it
\* and returns
MainServeFail ==
  /\ ~crashed
  /\ mainPc = "serve"
  /\ gsPc = "signal"
  /\ mainPc' = "returned"
  /\ crashed' = TRUE
  /\ UNCHANGED <<appends, gsPc, hPc, notMainVars>>

\* nSrv.Shutdown(ctx) returns nil when no connection is active any more, or
\* ctx.Err() when the deadline passes while a handler is still running
GsSrvShutdown ==
  /\ ~crashed
  /\ gsPc = "srv"
  /\ gsPc' = IF \A e \in EventIds : hPc[e] # "active" THEN "worker" ELSE "srvErr"
  /\ UNCHANGED <<appends, mainPc, hPc, crashed, notMainVars>>

\* if err != nil { shutdownChan <- err }: the channel is unbuffered, the send
\* meets Main's receive; Main logs the error, gracefulShutdown goes on with
\* the next shutdown function
GsSendErr ==
  /\ ~crashed
  /\ gsPc \in {"srvErr", "workerErr", "otelErr"}
  /\ mainPc = "recv"
  /\ mainPc' = "log"
  /\ gsPc' = CASE gsPc = "srvErr" -> "worker"
              [] gsPc = "workerErr" -> "otel"
              [] gsPc = "otelErr" -> "sendNil"
  /\ UNCHANGED <<appends, hPc, crashed, notMainVars>>

\* nlogger.Error().Err(err).Send(); Main returns and the process exits
MainReturn ==
  /\ ~crashed
  /\ mainPc = "log"
  /\ mainPc' = "returned"
  /\ crashed' = TRUE
  /\ UNCHANGED <<appends, gsPc, hPc, notMainVars>>

\* gracefulShutdown calls nWorker.Shutdown(ctx)
GsWorkerShutdown ==
  /\ gsPc = "worker"
  /\ ShutdownCancel

\* nWorker.Shutdown has returned nil or ctx.Err()
GsWorkerReturned ==
  /\ ~crashed
  /\ gsPc = "worker"
  /\ shutPc \in {"nil", "timeout"}
  /\ gsPc' = IF shutPc = "nil" THEN "otel" ELSE "workerErr"
  /\ UNCHANGED <<appends, mainPc, hPc, crashed, notMainVars>>

\* otelShut(ctx) returns nil or an error; api.Wg.Wait() follows the loop
GsOtel ==
  /\ ~crashed
  /\ gsPc = "otel"
  /\ gsPc' \in {"sendNil", "otelErr"}
  /\ UNCHANGED <<appends, mainPc, hPc, crashed, notMainVars>>

\* shutdownChan <- nil meets Main's receive: Main returns, the process exits
GsSendNil ==
  /\ ~crashed
  /\ gsPc = "sendNil"
  /\ mainPc = "recv"
  /\ gsPc' = "done"
  /\ mainPc' = "returned"
  /\ crashed' = TRUE
  /\ UNCHANGED <<appends, hPc, notMainVars>>

\* the process: Main, gracefulShutdown, the request handlers and the worker
NextMain ==
  \/ \E e \in EventIds : HandlerStart(e)
  \/ \E e \in EventIds : HandlerPut(e)
  \/ \E e \in EventIds : PutEventSend(e)
  \/ \E e \in EventIds : HandlerDone(e)
  \/ RunRegister
  \/ RunRecv
  \/ RunCancelled
  \/ RunAdd
  \/ RunAcquire
  \/ RunGo
  \/ RunReturn
  \/ \E e \in EventIds : TaskProcess(e)
  \/ \E e \in EventIds : TaskBackoffCheck(e)
  \/ \E e \in EventIds : TaskRetry(e)
  \/ \E e \in EventIds : TaskRelease(e)
  \/ \E e \in EventIds : TaskDone(e)
  \/ GsSignal
  \/ MainServeClosed
  \/ MainServeFail
  \/ GsSrvShutdown
  \/ GsSendErr
  \/ MainReturn
  \/ GsWorkerShutdown
  \/ ShutdownWaiter
  \/ ShutdownNil
  \/ ShutdownTimeout
  \/ GsWorkerReturned
  \/ GsOtel
  \/ GsSendNil

SpecMain == Init /\ [][NextMain]_vars

\* the steps of the worker's goroutines: the dispatch loop and the tasks
WorkerNext ==
  \/ RunRegister
  \/ RunRecv
  \/ RunCancelled
  \/ RunAdd
  \/ RunAcquire
  \/ RunGo
  \/ RunReturn
  \/ \E e \in EventIds : TaskProcess(e)
  \/ \E e \in EventIds : TaskBackoffCheck(e)
  \/ \E e \in EventIds : TaskRetry(e)
  \/ \E e \in EventIds : TaskRelease(e)
  \/ \E e \in EventIds : TaskDone(e)

\* the Go scheduler runs every runnable goroutine: a worker goroutine that
\* can take a step is not postponed forever (processEvent and the 2 s sleep
\* return); nothing is assumed about producers, Shutdown or its deadline
Fairness == WF_vars(WorkerNext)

FairSpec == Spec /\ Fairness

TypeOK ==
  /\ Events \in Seq(EventIds)
  /\ EnqueueTime \in [EventIds -> 0..1]
  /\ putPc \in [EventIds -> {"idle", "send", "done"}]
  /\ putRes \in [EventIds -> {"none", "ok", "full"}]
  /\ interf \subseteq EventIds
  /\ before \subseteq EventIds \X EventIds
  /\ runPc \in {"start", "select", "add", "acquire", "go", "return", "exited"}
  /\ nEvent \in EventIds \cup {NoEvent}
  /\ wg \in Nat
  /\ semaphore \in Nat
  /\ ctxDone \in BOOLEAN
  /\ taskPc \in [EventIds -> {"none", "process", "backoff", "retry", "release",
                              "wgdone", "exited"}]
  /\ outcome \in [EventIds -> Statuses \cup {"none"}]
  /\ shutPc \in {"idle", "wait", "nil", "timeout"}
  /\ done \in BOOLEAN
  /\ crashed \in BOOLEAN
  /\ resp \in [EventIds -> Seq({StatusServiceUnavailable, StatusCreated})]
  /\ getPc \in {"idle", "recv"}
  /\ getRes \in EventIds \cup {NoEvent}
  /\ procPc \in [EventIds -> {"idle", "assigned", "locked"}]
  /\ fileLock \in EventIds \cup {NoEvent}
  /\ ThreadIDSets \in [EventIds -> 0..2]
  /\ ThreadID \in [EventIds -> {0} \cup {GoroutineID(e) : e \in EventIds}]
  /\ \A e \in EventIds : Len(attempts[e]) <= 2
  /\ slept \in [EventIds -> BOOLEAN]
  /\ appends \in [EventIds -> 0..2]
  /\ CmdEnableRateLimit \in BOOLEAN
  /\ nRL \in 0..busrtSize
  /\ pcnRL \in [Clients -> {NoLimiter} \cup 0..pcbusrtSize]
  /\ expiring \in [Clients -> BOOLEAN]
  /\ reqPc \in [RequestIds -> {"new", "global", "lookup", "allow", "done"}]
  /\ reqAddr \in [RequestIds -> Clients \cup {BadAddr}]
  /\ reqGlobal \in [RequestIds -> {"none", "allowed", "refused"}]
  /\ reqClient \in [RequestIds -> {"none", "allowed", "refused"}]
  /\ reqStatus \in [RequestIds -> {0, StatusTooManyRequests, StatusInternalServerError}]
  /\ reqNext \in [RequestIds -> BOOLEAN]
  /\ mainPc \in {"serve", "recv", "log", "returned"}
  /\ gsPc \in {"signal", "srv", "srvErr", "worker", "workerErr", "otel",
               "otelErr", "sendNil", "done"}
  /\ hPc \in [EventIds -> {"new", "active", "done"}]

\* ------------------------------------------------------------- properties
\* the event has been received from the channel by the dispatch loop
Received(e) == putRes[e] = "ok" /\ e \notin Range(Events)

\* position of a queued event in the channel
Index(e) == CHOOSE i \in 1..Len(Events) : Events[i] = e

\* tasks that were launched and have not yet given their slot back
RunningTasks == {e \in EventIds : taskPc[e] \in {"process", "backoff", "retry", "release"}}

\* the task of e retried (passed the cancellation check after the backoff)
Retried(e) == taskPc[e] = "retry" \/ Len(calls[e]) = 2

\* C1: the number of events in the queue never exceeds the capacity and
\* Size() is always between 0 and the capacity
CapacityInvariant ==
  /\ Len(Events) <= Capacity
  /\ Size \in 0..Capacity

\* the queue is full while a producer that passed the length check is at its send
CapacityWitness == Len(Events) = Capacity /\ InFlight # {}

\* C2: admission never blocks: a PutEvent call that has passed the length
\* check can always complete its send without waiting for a dequeue
NonBlockingAdmission ==
  \A e \in EventIds : putPc[e] = "send" => ChanCanSend(Events)

RetryOnceLaw ==
  \A e \in EventIds :
    /\ Len(calls[e]) <= 2
    /\ calls[e] = <<"err", "ok">> => outcome[e] = "success"
    /\ calls[e] = <<"err", "err">> <=> outcome[e] = "failed"
    /\ (outcome[e] = "success" /\ Head(calls[e]) = "err") => Len(calls[e]) = 2
    /\ (outcome[e] # "none" /\ ~ctxDone /\ Head(calls[e]) = "err")
         => /\ Len(calls[e]) = 2
            /\ outcome[e] = (IF calls[e][2] = "ok" THEN "success" ELSE "failed")

\* without shutdown one event succeeded on its retry and another failed twice
RetryOnceWitness ==
  /\ ~ctxDone
  /\ \E a, b \in EventIds :
       /\ calls[a] = <<"err", "ok">> /\ outcome[a] = "success"
       /\ calls[b] = <<"err", "err">> /\ outcome[b] = "failed"

\* C5: when Shutdown returns nil no task is running and every event that
\* was dequeued before has a terminal outcome
GracefulShutdown ==
  [][(shutPc = "wait" /\ shutPc' = "nil")
       => \A e \in EventIds :
            /\ taskPc'[e] \in {"none", "exited"}
            /\ Received(e)' => outcome'[e] # "none"]_vars

\* C6: a task that finds the cancellation signal set at its check after the
\* backoff records skipped and does not invoke processEvent again
SkipOnShutdown ==
  /\ [](\A e \in EventIds :
          outcome[e] = "skipped"
            => Len(calls[e]) = 1 /\ taskPc[e] \in {"release", "wgdone", "exited"})
  /\ [][\A e \in EventIds :
          (taskPc[e] = "backoff" /\ ctxDone /\ taskPc'[e] # "backoff")
            => outcome'[e] = "skipped" /\ calls'[e] = calls[e]]_vars

\* an event was skipped and its task has exited after one invocation
SkipWitness ==
  \E e \in EventIds :
    outcome[e] = "skipped" /\ taskPc[e] = "exited" /\ calls[e] = <<"err">>

\* C7: if PutEvent(a) returned nil before PutEvent(b) was called then a is
\* received by the dispatch loop no later than b
FIFO ==
  \A p \in before :
    /\ Received(p[2]) => Received(p[1])
    /\ (p[1] \in Range(Events) /\ p[2] \in Range(Events)) => Index(p[1]) < Index(p[2])

\* a has been received while b, put strictly after a, is still queued
FIFOWitness ==
  \E p \in before : Received(p[1]) /\ p[2] \in Range(Events)

RejectedLeavesNoTrace ==
  /\ [](\A e \in EventIds :
          putRes[e] = "full"
            => /\ EnqueueTime[e] = 0
               /\ e \notin Range(Events)
               /\ nEvent # e
               /\ taskPc[e] = "none"
               /\ putPc[e] = "done")
  /\ [][\A e \in EventIds :
          (putRes[e] # "full" /\ putRes'[e] = "full") => Events' = Events]_vars

\* an event was rejected and the queue has room again: it is still absent
RejectedWitness ==
  \E e \in EventIds :
    putRes[e] = "full" /\ Len(Events) < Capacity /\ EnqueueTime[e] = 0

\* C10: the retry counter of a type counts exactly the events of that type
\* whose task retried; first-attempt successes and skipped events are not
\* counted; fail-then-succeed gives success and one increment
RetryCountLaw ==
  /\ \A t \in EventTypes :
       PromEventRetryCount[t] =
         Cardinality({e \in EventIds : EventType(e) = t /\ Retried(e)})
  /\ \A e \in EventIds :
       /\ (calls[e] = <<"ok">> \/ outcome[e] = "skipped") => ~Retried(e)
       /\ calls[e] = <<"err", "ok">> => outcome[e] = "success"

\* one event failed then succeeded and is the only retry of its type
RetryCountWitness ==
  \E e \in EventIds :
    /\ calls[e] = <<"err", "ok">>
    /\ outcome[e] = "success"
    /\ PromEventRetryCount[EventType(e)] = 1
    /\ \E x \in EventIds : outcome[x] = "skipped"

\* C11: once the cancellation signal is set the dispatch loop dequeues no
\* further event
NoDequeueAfterCancel ==
  [][(ctxDone /\ nEvent = NoEvent) => nEvent' = NoEvent]_vars

\* C12: the acquisition of a concurrency slot observes the cancellation
\* signal: no slot is granted once cancellation is set
NoSlotAfterCancel ==
  [][ctxDone => semaphore' <= semaphore]_vars

\* C13: every event whose PutEvent returned nil before Shutdown was invoked
\* has a terminal outcome when Shutdown returns nil
AdmittedDrained ==
  \A e \in EventIds :
    []((shutPc = "idle" /\ putRes[e] = "ok")
         => [](shutPc = "nil" => outcome[e] # "none"))

\* C16: for a PutEvent that returned the queue-full error the handler writes
\* exactly one response, the 503, and no success body
QueueFullResponse ==
  \A e \in EventIds :
    putRes[e] = "full" => resp[e] = <<StatusServiceUnavailable>>

PanicContained ==
  [][\A e \in EventIds :
       (taskPc[e] \in {"process", "retry"} /\ taskPc'[e] = "exited")
         => ~crashed' /\ outcome'[e] = "failed"]_vars

\* C18: GetEvent never blocks: a call that has passed the length check finds
\* an event to receive
GetEventNeverBlocks == getPc = "recv" => Len(Events) > 0

\* the steps of the task goroutine of event e
TaskStep(e) ==
  \/ TaskProcess(e)
  \/ TaskBackoffCheck(e)
  \/ TaskRetry(e)
  \/ TaskRelease(e)
  \/ TaskDone(e)

\* the tasks that were launched and have not exited
LiveTasks == {e \in EventIds : taskPc[e] \notin {"none", "exited"}}

\* the worker has stopped: Run has returned and the WaitGroup counter is zero
Stopped == runPc = "exited" /\ wg = 0

\* an upper bound on the steps PutEvent, the loop and the task can still take
\* for event e: 2 of PutEvent, receive, Add, acquire and go of the loop, and
\* at most 5 of the task
TaskWork ==
  [none |-> 6, process |-> 5, backoff |-> 4, retry |-> 3, release |-> 2,
   wgdone |-> 1, exited |-> 0]
HeldWork == [add |-> 8, acquire |-> 7, go |-> 6]
EventWork(e) ==
  IF taskPc[e] # "none" THEN TaskWork[taskPc[e]]
  ELSE IF nEvent = e THEN HeldWork[runPc]
  ELSE IF putPc[e] = "idle" THEN 11
  ELSE IF putPc[e] = "send" THEN 10
  ELSE IF putRes[e] = "full" THEN 0
  ELSE 9

\* the steps Run itself can still take: register, leave the select, return
LoopWork ==
  IF runPc = "start" THEN 3
  ELSE IF runPc = "return" THEN 1
  ELSE IF runPc = "exited" THEN 0
  ELSE 2

\* the step uses up work of the loop or of some event and adds none
WorkDone ==
  /\ LoopWork' <= LoopWork
  /\ \A e \in EventIds : EventWork(e)' <= EventWork(e)
  /\ \/ LoopWork' < LoopWork
     \/ \E e \in EventIds : EventWork(e)' < EventWork(e)

ShutdownTerminates ==
  /\ []((ctxDone /\ ~Stopped) => ENABLED WorkerNext)
  /\ [][shutPc' # shutPc \/ done' # done \/ WorkDone]_vars

\* the same as a liveness property of FairSpec
EventuallyStopped == ctxDone ~> Stopped

\* cancellation is set while the loop holds an event and all slots are taken
ShutdownTerminatesWitness ==
  /\ ctxDone
  /\ runPc = "acquire"
  /\ semaphore = CmdmaxWorkerGoroutines

\* C20: a dequeued event is either still held by the dispatch loop or has
\* been handed to one task, never both and never neither; a task is started
\* once, for the event the loop holds; the task has recorded an outcome
\* exactly when its body has ended, the outcome is counted in exactly one
\* status counter and never changes
ExactlyOneTask ==
  /\ [](\A e \in EventIds :
          /\ Received(e) <=> (nEvent = e \/ taskPc[e] # "none")
          /\ ~(nEvent = e /\ taskPc[e] # "none")
          /\ outcome[e] # "none" <=> taskPc[e] \in {"release", "wgdone", "exited"})
  /\ [](\A s \in Statuses, t \in EventTypes :
          PromEventTotalProcessStatus[<<s, t>>] =
            Cardinality({e \in EventIds : EventType(e) = t /\ outcome[e] = s}))
  /\ [](nEvent # NoEvent => ENABLED WorkerNext)
  /\ [][\A e \in EventIds :
          /\ (taskPc[e] = "none" /\ taskPc'[e] # "none")
               => nEvent = e /\ taskPc'[e] = "process" /\ nEvent' = NoEvent
          /\ taskPc[e] # "none" => taskPc'[e] # "none" /\ nEvent' # e
          /\ (taskPc'[e] = "process" => taskPc[e] \in {"none", "process"})
          /\ outcome[e] # "none" => outcome'[e] = outcome[e]]_vars

\* three events were dequeued and their tasks have exited with the three
\* different outcomes
ExactlyOneTaskWitness ==
  \E a, b, c \in EventIds :
    /\ taskPc[a] = "exited" /\ outcome[a] = "success"
    /\ taskPc[b] = "exited" /\ outcome[b] = "failed"
    /\ taskPc[c] = "exited" /\ outcome[c] = "skipped"

\* C21 as stated: the number of held slots always equals the number of tasks
\* launched and not yet exited
SlotsEqualLiveTasks == semaphore = Cardinality(LiveTasks)

\* C21: the held slots are those of the tasks that are in their body, plus
\* the one the loop has acquired for the task it is about to launch; a task
\* that is past its deferred release holds none, on every path, and no slot
\* is held once all tasks have exited
SlotPairing ==
  /\ semaphore = Cardinality(RunningTasks) + (IF runPc = "go" THEN 1 ELSE 0)
  /\ (LiveTasks = {} /\ runPc # "go") => semaphore = 0

\* three tasks have ended as success, failed and skipped, the loop has
\* returned and no slot is held
SlotPairingWitness ==
  /\ runPc = "exited"
  /\ semaphore = 0
  /\ \A st \in Statuses :
       \E e \in EventIds : outcome[e] = st /\ taskPc[e] \in {"wgdone", "exited"}

\* the events received by the loop whose task has not exited
Unfinished == {e \in EventIds : Received(e) /\ taskPc[e] # "exited"}

\* Run is between its w.wg.Add(1) and its deferred w.wg.Done()
RunRegistered == runPc \in {"select", "add", "acquire", "go", "return"}

\* C22 as stated: while Run is executing the WaitGroup counter is 1 plus the
\* number of dequeued events whose task has not exited
BarrierEqualsUnfinished ==
  RunRegistered => wg = 1 + Cardinality(Unfinished)

\* C22: the WaitGroup counter is never negative and counts Run (from its
\* Add to its deferred Done) and every dequeued event whose task has not
\* exited, except the event the loop has just received and not yet added
BarrierCount ==
  /\ wg >= 0
  /\ wg = (IF RunRegistered THEN 1 ELSE 0)
            + Cardinality(Unfinished)
            - (IF runPc = "add" THEN 1 ELSE 0)

\* the loop waits for a slot with an event it has counted, one task has
\* exited and another is still in its body
BarrierCountWitness ==
  /\ runPc = "acquire"
  /\ \E e \in EventIds : taskPc[e] = "exited"
  /\ \E e \in EventIds : taskPc[e] \in {"process", "backoff", "retry"}

\* C23: at most one task is between w.fileLock.Lock() and the return of
\* processEvent, where the file is opened and written; the lock is held by
\* exactly that task, by no task that is still hashing or sleeping, and by
\* no task whose processEvent call has returned, with or without an error
FileLockExclusive ==
  /\ Cardinality({e \in EventIds : procPc[e] = "locked"}) <= 1
  /\ \A e \in EventIds :
       /\ procPc[e] = "locked" <=> fileLock = e
       /\ procPc[e] # "idle" => taskPc[e] \in {"process", "retry"}

\* one task holds the lock in its retry, after a first call that returned an
\* error, while another task stands before Lock()
FileLockWitness ==
  \E a, b \in EventIds :
    /\ procPc[a] = "locked" /\ taskPc[a] = "retry"
    /\ procPc[b] = "assigned"

\* C24: when the dispatch loop waits in its select on an empty queue and the
\* cancellation signal is set, the loop can leave the select for its return
\* at once, with the queue still empty, and it can do nothing else there
CancelWakesLoop ==
  (runPc = "select" /\ ctxDone /\ Len(Events) = 0) =>
    /\ ENABLED (RunCancelled /\ runPc' = "return" /\ Len(Events') = 0)
    /\ ~ENABLED RunRecv

\* the loop has left its select after cancellation although no producer has
\* ever offered an event
CancelWakesLoopWitness ==
  /\ runPc = "return"
  /\ ctxDone
  /\ \A e \in EventIds : putPc[e] = "idle"

\* C25: a task that is in the sleep of its backoff when the cancellation
\* signal is set can take the skipped outcome at once, the two seconds not
\* having elapsed
BackoffInterruptible ==
  \A e \in EventIds :
    (taskPc[e] = "backoff" /\ ~slept[e] /\ ctxDone) =>
      ENABLED (TaskWake(e) /\ outcome'[e] = "skipped")

\* events whose processEvent has returned an error at least once
Errored == {e \in EventIds : \E i \in 1..Len(calls[e]) : calls[e][i] = "err"}

\* C26: once processEvent has failed for some event, once or twice, the
\* process is still up, the dispatch loop has left its select for the return
\* only on cancellation, and the loop still dequeues a queued event, counts
\* it, takes a free slot and starts its task
ErrorContained ==
  Errored # {} =>
    /\ ~crashed
    /\ runPc \in {"return", "exited"} => ctxDone
    /\ (runPc = "select" /\ Len(Events) > 0) => ENABLED RunRecv
    /\ runPc = "add" => ENABLED RunAdd
    /\ (runPc = "acquire" /\ semaphore < CmdmaxWorkerGoroutines) => ENABLED RunAcquire
    /\ runPc = "go" => ENABLED RunGo

\* one event has failed permanently, another has failed once and waits for
\* its retry, and the loop, not cancelled, is starting the task of a third
ErrorContainedWitness ==
  /\ ~ctxDone
  /\ runPc = "go"
  /\ \E a, b \in EventIds :
       /\ outcome[a] = "failed" /\ taskPc[a] = "exited"
       /\ calls[b] = <<"err">> /\ taskPc[b] = "backoff"
       /\ nEvent \notin {a, b}

\* C27: a step that increases the occupancy of the queue is the channel send
\* of a producer's PutEvent, never a step of the dispatch loop or of a task;
\* an event with the failed or skipped outcome is not in the queue, it is in
\* the status counter of its outcome
NoRequeue ==
  [][/\ Len(Events') > Len(Events) =>
          \E e \in EventIds :
            /\ putPc[e] = "send" /\ putPc'[e] = "done"
            /\ Events' = ChanSend(Events, e)
            /\ runPc' = runPc /\ taskPc' = taskPc
     /\ \A e \in EventIds :
          outcome'[e] \in {"failed", "skipped"} =>
            /\ e \notin Range(Events')
            /\ PromEventTotalProcessStatus'[<<outcome'[e], EventType(e)>>] > 0]_vars

\* one event has failed permanently, one was skipped, and the queue holds a
\* third event
NoRequeueWitness ==
  /\ Len(Events) > 0
  /\ \E a, b \in EventIds : outcome[a] = "failed" /\ outcome[b] = "skipped"

\* C28: processing assigns BaseEvent.ThreadID of an event once, never a
\* second time, also when the event is retried
ThreadIDSetOnce == \A e \in EventIds : ThreadIDSets[e] <= 1

\* C29: the dispatch loop never waits for a task it has started: it can
\* receive whenever the queue holds an event, count the event and start its
\* task, whatever tasks are running, and the one place where it blocks is
\* the slot acquisition, exactly when all CmdmaxWorkerGoroutines slots are
\* taken
LoopDoesNotWait ==
  /\ (runPc = "select" /\ Len(Events) > 0) => ENABLED RunRecv
  /\ runPc = "add" => ENABLED RunAdd
  /\ runPc = "acquire" =>
       (ENABLED RunAcquire <=> semaphore < CmdmaxWorkerGoroutines)
  /\ runPc = "go" => ENABLED RunGo

\* two tasks are in processEvent at the same time and the loop is back at
\* its select
LoopDoesNotWaitWitness ==
  /\ runPc = "select"
  /\ Cardinality({e \in EventIds : taskPc[e] = "process"}) >= 2

\* C30: with rate limiting enabled, next.ServeHTTP is called for a request
\* only when the global limiter and the limiter of its client address have
\* both allowed it; a request that either limiter refused has status 429,
\* is finished and has not reached the next handler
RateLimitGate ==
  CmdEnableRateLimit =>
    \A r \in RequestIds :
      /\ reqNext[r] => reqGlobal[r] = "allowed" /\ reqClient[r] = "allowed"
      /\ (reqGlobal[r] = "refused" \/ reqClient[r] = "refused") =>
           /\ reqStatus[r] = StatusTooManyRequests
           /\ reqPc[r] = "done"
           /\ ~reqNext[r]

\* of three requests one was passed on, one was refused by its client's
\* limiter and one by the global limiter
RateLimitGateWitness ==
  /\ CmdEnableRateLimit
  /\ \E a, b, c \in RequestIds :
       /\ reqNext[a]
       /\ reqGlobal[b] = "allowed" /\ reqClient[b] = "refused"
       /\ reqGlobal[c] = "refused"

\* C31: the worker's Shutdown is invoked only when nSrv.Shutdown has
\* returned, and no request handler begins a PutEvent call once the worker's
\* cancellation signal is set
NoPutAfterCancel ==
  [][/\ (shutPc = "idle" /\ shutPc' # "idle") => gsPc = "worker"
     /\ \A e \in EventIds :
          (putPc[e] = "idle" /\ putPc'[e] # "idle") => ~ctxDone]_vars

\* C36: after a termination signal Main has not returned unless the
\* worker's Shutdown call has returned
MainWaitsForWorker ==
  (mainPc = "returned" /\ gsPc # "signal") => shutPc \in {"nil", "timeout"}

\* the events taken from the channel that have no terminal outcome yet
Undecided ==
  LET queued == Range(Events)
  IN {e \in EventIds : outcome[e] = "none" /\ putRes[e] = "ok" /\ e \notin queued}

\* the event the dispatch loop holds between its receive and the go statement
HeldByLoop == IF runPc \in {"add", "acquire", "go"} THEN {nEvent} ELSE {}

\* C33: at all times the events removed from the queue without a terminal
\* outcome are at most CmdmaxWorkerGoroutines + 1: at most
\* CmdmaxWorkerGoroutines of them are with tasks, and at most one is held by
\* the dispatch loop
InFlightBound ==
  [](LET all == Undecided
         withTasks == all \ HeldByLoop
     IN /\ Cardinality(all) <= CmdmaxWorkerGoroutines + 1
        /\ Cardinality(withTasks) <= CmdmaxWorkerGoroutines
        /\ \A e \in withTasks : taskPc[e] \in {"process", "backoff", "retry"})

\* the bound is met: every slot is taken by a task without an outcome and
\* the loop waits for a slot with one more event
InFlightBoundWitness ==
  /\ runPc = "acquire"
  /\ Cardinality(Undecided) = CmdmaxWorkerGoroutines + 1

\* C32: when a handler reads the entry of its client address to call Allow,
\* the map holds an entry for that address
ClientEntryPresent ==
  [][\A r \in RequestIds :
       (reqPc[r] = "allow" /\ reqPc'[r] = "done") =>
         pcnRL[reqAddr[r]] # NoLimiter]_vars

\* C34: whenever Shutdown has returned nil, Run has returned, so that no
\* event is dequeued afterwards
NilMeansRunReturned == shutPc = "nil" => runPc = "exited"

\* C35: no event is appended to the processed-events file more than once;
\* an event with outcome success has been appended exactly once, an event
\* with outcome failed or skipped not at all
AppendOnce ==
  \A e \in EventIds :
    /\ appends[e] <= 1
    /\ outcome[e] = "success" => appends[e] = 1
    /\ outcome[e] \in {"failed", "skipped"} => appends[e] = 0

\* the three outcomes side by side, the success reached by the retry
AppendOnceWitness ==
  \E a, b, c \in EventIds :
    /\ outcome[a] = "success" /\ calls[a] = <<"err", "ok">>
    /\ outcome[b] = "failed"
    /\ outcome[c] = "skipped"

\* C37: every processEvent call for an event computes the serialized
\* metadata, the digest and the length that the first call computed
DigestSameOnRetry ==
  \A e \in EventIds :
    \A i \in 1..Len(attempts[e]) : attempts[e][i] = attempts[e][1]

\* the events whose task recorded the given outcome
WithOutcome(o) == {e \in EventIds : outcome[e] = o}

\* the status counter of the given status, over both event types
StatusTotal(status) ==
  PromEventTotalProcessStatus[<<status, "log">>]
    + PromEventTotalProcessStatus[<<status, "metric">>]

====
